---- MODULE Spec2Model ----
(***************************************************************************)
(* The plugin catalogue synchroniser (sync-plugins.js).                    *)
(*                                                                         *)
(* The repository holds three versions of the script:                      *)
(*   VHead  src/sync-plugins.js lines 1-307: change detection through      *)
(*          isPluginEqual, deletions through processDeletePlugin, a        *)
(*          console summary;                                               *)
(*   VTail  src/sync-plugins.js lines 309-551: every existing record is    *)
(*          updated, deletions inline in syncPlugins, report posted to the *)
(*          pull request;                                                  *)
(*   VPart  src/unnamed/part_000: as VTail plus generateReadme.            *)
(* One run of the model is one run of one of them.  The helpers imported   *)
(* from ./utils.js and the two stores behind them are not in src/; they    *)
(* are modelled from the specification's interface section.                *)
(*                                                                         *)
(* Names, repository names (slugs) and owners are numbers.  The report     *)
(* lists are bags: the script only appends to them and reads their length  *)
(* and their members.  A store call takes effect when its promise settles. *)
(***************************************************************************)
EXTENDS Integers, Sequences, FiniteSets, Bags, TLC

\* Bounds of the model.
MaxFaults == 1
MaxEntries == 12
MaxOrphans == 1

\* const BATCH_SIZE = 5
BATCH_SIZE == 5

VHead == "sync-plugins.js:1-307"
VTail == "sync-plugins.js:309-551"
VPart == "unnamed/part_000"
Variants == {VHead, VTail, VPart}

VARIABLES
  variant,          \* which version of the script runs
  githubPlugins,    \* the manifest, plugins.json
  world,            \* what the three enrichment lookups answer, per manifest position
  webflow,          \* content store: id -> fieldData
  algolia,          \* index store: objectID -> item
  webflowPlugins,   \* the listing of the content store taken by syncPlugins
  webflowPluginIds, \* new Set(webflowPlugins.map(plugin => plugin.name))
  mainPc,           \* where syncPlugins is
  i,                \* the batch loop's i
  cursor,           \* position of the orphan loop in webflowPlugins
  pc,               \* where each processPlugin call is
  createdPlugins, updatedPlugins, deletedPlugins, failedPlugins,
  exitCode,         \* -1 while running
  run, rerun,       \* the number of this run; whether a second run follows
  calls,            \* history: store mutations issued in this run
  faults,           \* history: external calls that threw
  storeFaults,      \* history: store mutations that threw in this run
  batches, sleeps,  \* history: batches formed (their positions), sleeps started
  started,          \* history: processPlugin calls started, per manifest position
  raised,           \* history: the exception raised while processing a position
  deleteFailed,     \* history: names whose delete call threw in this run
  fatalCause,       \* history: the call whose exception reached syncPlugins' catch
  previousCalls,    \* history: the store mutations of the run before this one
  comments,         \* the comments of the pull request, oldest first
  eventName,        \* process.env.GITHUB_EVENT_NAME as this run read it, "" before
  commentCalls      \* history: the comment calls issued in this run

vars == <<variant, githubPlugins, world, webflow, algolia, webflowPlugins,
          webflowPluginIds, mainPc, i, cursor, pc, createdPlugins,
          updatedPlugins, deletedPlugins, failedPlugins, exitCode, run, rerun,
          calls, faults, storeFaults, batches, sleeps, started, raised,
          deleteFailed, fatalCause, previousCalls, comments, eventName,
          commentCalls>>

----------------------------------------------------------------------------
\* Data

Min(S) == CHOOSE x \in S : \A y \in S : x <= y

\* An append that writes back a list read before the other appends: the
\* list holds the new element alone.
PushLossy(list, x) == SetToBag({x})

Push(list, x) == list (+) SetToBag({x})

Count(list, x) == CopiesIn(x, list)

\* A repository URL https://github.com/<owner>/<repo>; an unparsable one.
Url(owner, repo) == [valid |-> TRUE, owner |-> owner, repo |-> repo]
BadUrl == [valid |-> FALSE, owner |-> 0, repo |-> 0]

\* gitUrlParse(githubUrl) throws on a URL it cannot parse.
gitUrlParseThrows(githubUrl) == ~githubUrl.valid

gitUrlParse(githubUrl) ==
  [source |-> "github.com", owner |-> githubUrl.owner, name |-> githubUrl.repo]

\* path.basename(githubUrl): the last path segment.
basename(githubUrl) == githubUrl.repo

\* active: status && status === 'active'
Active(status) == IF status = "" THEN "" ELSE
                  IF status = "active" THEN "true" ELSE "false"

\* The answers of getRepoInfo, getNpmDownloads and getReadmeContent.
RepoInfo == [found |-> TRUE, githubStars |-> 7, author |-> "author"]
NoRepoInfo == [found |-> FALSE, githubStars |-> 0, author |-> ""]
WorldFull == [repoInfo |-> RepoInfo, npmDownloads |-> 9, readme |-> "readme"]
WorldBare == [repoInfo |-> NoRepoInfo, npmDownloads |-> 0, readme |-> "readme"]
WorldEmpty == [repoInfo |-> RepoInfo, npmDownloads |-> 9, readme |-> ""]

\* githubStars stored as destructured, without the || 0: -1 stands for the
\* undefined of an absent answer.
StarsNoDefault(w) == IF w.repoInfo.found THEN w.repoInfo.githubStars ELSE -1

\* const { githubStars, author... } = repoInfo || {};  githubStars || 0
Stars(w) == IF w.repoInfo.found THEN w.repoInfo.githubStars ELSE 0
Author(w) == IF w.repoInfo.found THEN w.repoInfo.author ELSE ""

\* const { content } = readmeContent || {}
Content(w) == w.readme

slugOf(githubPlugin) == basename(githubPlugin.githubUrl)

\* fieldData built without the manifest's description.
FieldDataNoDescription(githubPlugin, w) ==
  [name |-> githubPlugin.name,
   slug |-> slugOf(githubPlugin),
   description |-> "",
   github |-> githubPlugin.githubUrl,
   content |-> Content(w),
   npmDownloads |-> w.npmDownloads,
   githubStars |-> Stars(w),
   author |-> Author(w),
   active |-> Active(githubPlugin.status)]

\* fieldData of processPlugin (title, a function of name alone, is left out;
\* author stands for author-link, author-name and author-avatar).
FieldData(githubPlugin, w) ==
  [name |-> githubPlugin.name,
   slug |-> slugOf(githubPlugin),
   description |-> githubPlugin.description,
   github |-> githubPlugin.githubUrl,
   content |-> Content(w),
   npmDownloads |-> w.npmDownloads,
   githubStars |-> Stars(w),
   author |-> Author(w),
   active |-> Active(githubPlugin.status)]

\* algoliaItem of processPlugin.
AlgoliaItem(githubPlugin, w) ==
  [objectID |-> slugOf(githubPlugin),
   name |-> githubPlugin.name,
   description |-> githubPlugin.description,
   githubUrl |-> githubPlugin.githubUrl,
   npmDownloads |-> w.npmDownloads,
   githubStars |-> Stars(w),
   author |-> Author(w)]

\* The index item that goes with a stored fieldData.
ItemOf(fd) ==
  [objectID |-> fd.slug, name |-> fd.name, description |-> fd.description,
   githubUrl |-> fd.github, npmDownloads |-> fd.npmDownloads,
   githubStars |-> fd.githubStars, author |-> fd.author]

----------------------------------------------------------------------------
\* utils.js and the stores (not in src/)

PluginName(p) == IF "fieldData" \in DOMAIN p THEN p.fieldData.name ELSE p.name

\* findPluginByName(plugins, name): position of the first plugin of that name,
\* 0 when there is none.
findPluginByName(plugins, name) ==
  LET hits == {x \in 1..Len(plugins) : PluginName(plugins[x]) = name}
  IN IF hits = {} THEN 0 ELSE Min(hits)

\* isPluginEqual(githubPlugin, fieldData, content), as processPlugin uses its
\* result (const hasChanged = isPluginEqual(...)): true when a tracked field
\* (name, description, github URL, active flag, README content) differs.
isPluginEqual(githubPlugin, fieldData, content) ==
  \/ githubPlugin.name # fieldData.name
  \/ githubPlugin.description # fieldData.description
  \/ githubPlugin.githubUrl # fieldData.github
  \/ Active(githubPlugin.status) # fieldData.active
  \/ content # fieldData.content

\* The content store assigns the id of a new item; ids are opaque, and the
\* model takes the item's name for it.
NewId(fieldData) == fieldData.name

createWebflowItem(store, fieldData) ==
  [id \in DOMAIN store \cup {NewId(fieldData)} |->
     IF id = NewId(fieldData) THEN fieldData ELSE store[id]]

updateWebflowItem(store, id, fieldData) ==
  [x \in DOMAIN store |-> IF x = id THEN fieldData ELSE store[x]]

deleteWebflowItem(store, id) == [x \in DOMAIN store \ {id} |-> store[x]]

\* The index store saves an item under its objectID, replacing any item there.
createAlgoliaItem(index, item) ==
  [o \in DOMAIN index \cup {item.objectID} |->
     IF o = item.objectID THEN item ELSE index[o]]

updateAlgoliaItem(index, item) == createAlgoliaItem(index, item)

deleteAlgoliaItem(index, objectID) ==
  [o \in DOMAIN index \ {objectID} |-> index[o]]

\* listWebflowCollectionItems: the items of the store, in id order.
RECURSIVE ListItems(_, _)
ListItems(store, ids) ==
  IF ids = {} THEN <<>>
  ELSE LET id == Min(ids)
       IN <<[id |-> id, fieldData |-> store[id]]>> \o ListItems(store, ids \ {id})

listWebflowCollectionItems(store) == ListItems(store, DOMAIN store)

----------------------------------------------------------------------------
\* Initial states: a manifest, the enrichment answers and the catalogue that
\* earlier runs left behind.

Entry(name, githubUrl) ==
  [name |-> name, description |-> "d1", githubUrl |-> githubUrl,
   status |-> "active"]

EmptyStore == [x \in {} |-> 0]

\* What a manifest name is in a small scenario: absent, new (no record) or
\* existing (a record, equal to the target, differing in the description, or
\* differing only in the star count).
Cases(urls) ==
  {[kind |-> "absent", url |-> "own", w |-> WorldFull, stored |-> "same"]}
  \cup {[kind |-> "new", url |-> u, w |-> w, stored |-> "same"] :
          u \in urls, w \in {WorldFull, WorldBare, WorldEmpty}}
  \cup {[kind |-> "existing", url |-> u, w |-> WorldFull, stored |-> s] :
          u \in urls, s \in {"same", "desc", "stars"}}
  \cup {[kind |-> "existing", url |-> u, w |-> w, stored |-> "same"] :
          u \in urls, w \in {WorldBare, WorldEmpty}}

Cases1 == Cases({"own"})
  \cup {[kind |-> k, url |-> "bad", w |-> WorldFull, stored |-> "same"] :
          k \in {"new", "existing"}}
Cases2 == Cases({"own", "shared"})

\* Name 2 may live in a repository with the last path segment of name 1's.
CaseUrl(name, c) == IF c.url = "bad" THEN BadUrl
                    ELSE IF c.url = "shared" THEN Url(name, 1)
                    ELSE Url(name, name)

CaseEntry(name, c) == Entry(name, CaseUrl(name, c))

\* The record an earlier run stored for an entry.
CaseStored(name, c) ==
  LET e == Entry(name, IF c.url = "bad" THEN Url(name, name) ELSE CaseUrl(name, c))
      base == FieldData(e, IF Content(c.w) = "" THEN WorldFull ELSE c.w)
  IN IF c.stored = "desc" THEN [base EXCEPT !.description = "d0"]
     ELSE IF c.stored = "stars" THEN [base EXCEPT !.githubStars = base.githubStars + 1]
     ELSE base

\* Orphans: records of names 101, 102, ... that the manifest no longer has;
\* an orphan's slug is its own or that of name 1's repository.
OrphanName(q) == 100 + q
OrphanStored(q, shared) ==
  FieldData(Entry(OrphanName(q), Url(OrphanName(q), IF shared THEN 1 ELSE OrphanName(q))),
            WorldFull)

DistinctSlugs(store) ==
  \A x, y \in DOMAIN store : x # y => store[x].slug # store[y].slug

IndexOf(store) ==
  [o \in {store[x].slug : x \in DOMAIN store} |->
     ItemOf(store[CHOOSE x \in DOMAIN store : store[x].slug = o])]

RunningOver(manifest, w, store, index, v, again) ==
  /\ variant = v
  /\ githubPlugins = manifest
  /\ world = w
  /\ webflow = store
  /\ algolia = index
  /\ webflowPlugins = <<>>
  /\ webflowPluginIds = {}
  /\ mainPc = "start"
  /\ i = 0
  /\ cursor = 0
  /\ pc = [j \in 1..Len(manifest) |-> "idle"]
  /\ createdPlugins = EmptyBag
  /\ updatedPlugins = EmptyBag
  /\ deletedPlugins = EmptyBag
  /\ failedPlugins = EmptyBag
  /\ exitCode = -1
  /\ run = 1
  /\ rerun = again
  /\ calls = EmptyBag
  /\ faults = 0
  /\ storeFaults = 0
  /\ batches = <<>>
  /\ sleeps = 0
  /\ started = [j \in 1..Len(manifest) |-> 0]
  /\ raised = [j \in 1..Len(manifest) |-> ""]
  /\ deleteFailed = {}
  /\ fatalCause = ""
  /\ previousCalls = EmptyBag
  /\ comments = <<>>
  /\ eventName = ""
  /\ commentCalls = EmptyBag

Running(manifest, w, store, v, again) ==
  RunningOver(manifest, w, store, IndexOf(store), v, again)

OrphanStores ==
  {[x \in {OrphanName(q) : q \in 1..n} |-> OrphanStored(x - 100, sh[x - 100])] :
     n \in 0..MaxOrphans, sh \in [1..MaxOrphans -> BOOLEAN]}

OwnOrphanStores ==
  {[x \in {OrphanName(q) : q \in 1..n} |-> OrphanStored(x - 100, FALSE)] :
     n \in 0..MaxOrphans}

Merge(f, g) == [x \in DOMAIN f \cup DOMAIN g |-> IF x \in DOMAIN f THEN f[x] ELSE g[x]]

Scenario(again, cases1, cases2, orphanStores) ==
  \E c1 \in cases1, c2 \in cases2, orphans \in orphanStores, v \in Variants :
    LET present == {n \in {1, 2} : (IF n = 1 THEN c1 ELSE c2).kind # "absent"}
        case(n) == IF n = 1 THEN c1 ELSE c2
        names == IF present = {1, 2} THEN <<1, 2>>
                 ELSE IF present = {1} THEN <<1>>
                 ELSE IF present = {2} THEN <<2>> ELSE <<>>
        manifest == [j \in 1..Len(names) |-> CaseEntry(names[j], case(names[j]))]
        w == [j \in 1..Len(names) |-> case(names[j]).w]
        stored == [n \in {n \in present : case(n).kind = "existing"} |->
                     CaseStored(n, case(n))]
        store == Merge(stored, orphans)
    IN /\ DistinctSlugs(store)
       /\ Running(manifest, w, store, v, again)

SingleOrphanStores == {o \in OrphanStores : Cardinality(DOMAIN o) <= 1}

\* A run over one or two manifest entries and at most one orphan, which a
\* second run may follow.
InitTwice == Scenario(TRUE, Cases1, Cases2, SingleOrphanStores)

BatchOrphanStores == {o \in OwnOrphanStores : Cardinality(DOMAIN o) <= 1}

\* Long manifests: entries 1..n, the first of every five with a README, over
\* a catalogue of at most one orphan.
InitBatch ==
  \E n \in 0..MaxEntries, orphans \in BatchOrphanStores, v \in Variants :
    LET manifest == [j \in 1..n |-> Entry(j, Url(j, j))]
        w == [j \in 1..n |-> IF j % BATCH_SIZE = 1 THEN WorldFull ELSE WorldEmpty]
    IN Running(manifest, w, orphans, v, FALSE)

\* Catalogues with one orphan more than the other families have, so that the
\* loop over the records meets an orphan after an orphan.
SeveralOrphanStores ==
  {[x \in {OrphanName(q) : q \in 1..n} |-> OrphanStored(x - 100, FALSE)] :
     n \in 0..(MaxOrphans + 1)}

\* An index item of a name that neither the manifest nor the content store
\* has: what a create leaves behind when the content record is later removed
\* by hand, or an item saved under a slug that has since changed.
StaleName == 200
StaleItem == ItemOf(FieldData(Entry(StaleName, Url(StaleName, StaleName)), WorldFull))

\* A run over at most one manifest entry and the orphans, the index holding
\* a stale item besides the items of the content records.
InitStale ==
  \E c1 \in Cases({"own"}), orphans \in SeveralOrphanStores, v \in Variants :
    LET manifest == IF c1.kind = "absent" THEN <<>> ELSE <<CaseEntry(1, c1)>>
        w == IF c1.kind = "absent" THEN <<>> ELSE <<c1.w>>
        stored == IF c1.kind = "existing" THEN [n \in {1} |-> CaseStored(1, c1)]
                  ELSE EmptyStore
        store == Merge(stored, orphans)
    IN RunningOver(manifest, w, store, createAlgoliaItem(IndexOf(store), StaleItem),
                   v, FALSE)

Init == InitTwice \/ InitBatch \/ InitStale

----------------------------------------------------------------------------
\* Shared pieces of the actions

N == Len(githubPlugins)

\* githubPlugins.slice(i), the whole rest of the list as one batch.
BatchAll(from) == {j \in 1..N : from < j}

\* githubPlugins.slice(i, i + BATCH_SIZE), as manifest positions.
Batch(from) == {j \in 1..N : from < j /\ j <= from + BATCH_SIZE}

NoReadme(name) == [name |-> name, reason |-> "No README content found", message |-> ""]

\* reason: `Webflow or Algolia error: ${getErrorMessage(err)}`
Failure(name, message) ==
  [name |-> name, reason |-> "Webflow or Algolia error", message |-> message]

Call(op, store, name) == [op |-> op, store |-> store, name |-> name]

\* An external call may throw while the fault budget lasts.
MayThrow == faults < MaxFaults

MainVars == <<i, cursor, batches, sleeps, started>>
ExitVars == <<mainPc, exitCode, fatalCause>>
InputVars == <<variant, githubPlugins, world, rerun, run, previousCalls>>
ThreadVars == <<comments, eventName, commentCalls>>
ListVars == <<webflowPlugins, webflowPluginIds>>
ReportVars == <<createdPlugins, updatedPlugins, deletedPlugins, failedPlugins>>

\* catch (error) { ...; process.exit(1); } of syncPlugins
Fatal(cause) ==
  /\ mainPc' = "fatal"
  /\ exitCode' = 1
  /\ fatalCause' = cause
  /\ faults' = faults + 1

----------------------------------------------------------------------------
\* syncPlugins

\* const githubPlugins = getGithubPluginsList();
ReadManifest ==
  /\ mainPc = "start"
  /\ \/ /\ mainPc' = "listAlgolia"
        /\ UNCHANGED <<exitCode, fatalCause, faults>>
     \/ /\ MayThrow
        /\ Fatal("getGithubPluginsList")
  /\ UNCHANGED <<InputVars, ThreadVars, ListVars, ReportVars, webflow, algolia, i, cursor,
                 pc, calls, storeFaults, batches, sleeps, started, raised,
                 deleteFailed>>

\* const algoliaPlugins = await listAlgoliaItems();
ListAlgolia ==
  /\ mainPc = "listAlgolia"
  /\ \/ /\ mainPc' = "listWebflow"
        /\ UNCHANGED <<exitCode, fatalCause, faults>>
     \/ /\ MayThrow
        /\ Fatal("listAlgoliaItems")
  /\ UNCHANGED <<InputVars, ThreadVars, ListVars, ReportVars, webflow, algolia, i, cursor,
                 pc, calls, storeFaults, batches, sleeps, started, raised,
                 deleteFailed>>

\* const webflowPlugins = await listWebflowCollectionItems(...);
\* const webflowPluginIds = new Set(...); let i = 0
ListWebflow ==
  /\ mainPc = "listWebflow"
  /\ \/ /\ webflowPlugins' = listWebflowCollectionItems(webflow)
        /\ webflowPluginIds' = {PluginName(webflowPlugins'[x]) : x \in 1..Len(webflowPlugins')}
        /\ mainPc' = "loop"
        /\ i' = 0
        /\ UNCHANGED <<exitCode, fatalCause, faults>>
     \/ /\ MayThrow
        /\ Fatal("listWebflowCollectionItems")
        /\ UNCHANGED <<ListVars, i>>
  /\ UNCHANGED <<InputVars, ThreadVars, ReportVars, webflow, algolia, cursor,
                 pc, calls, storeFaults, batches, sleeps, started, raised,
                 deleteFailed>>

\* The synchronous head of processPlugin, up to its first await: a URL that
\* does not parse throws into the catch block, otherwise the three enrichment
\* calls are issued.
StartedPc(j) == IF gitUrlParseThrows(githubPlugins[j].githubUrl) THEN "done" ELSE "enrich"

RECURSIVE PushAll(_, _)
PushAll(list, xs) ==
  IF xs = {} THEN list
  ELSE LET x == CHOOSE y \in xs : TRUE IN PushAll(Push(list, x), xs \ {x})

\* The loop test written with <=.
LoopGuardInclusive == i <= N

\* May the loop body run: i < githubPlugins.length
LoopGuard == i < N

\* for (...) { const batch = githubPlugins.slice(i, i + BATCH_SIZE);
\*             await Promise.all(batch.map(processPlugin ...))
StartBatch ==
  /\ mainPc = "loop"
  /\ LoopGuard
  /\ pc' = [j \in 1..N |-> IF j \in Batch(i) THEN StartedPc(j) ELSE pc[j]]
  /\ started' = [j \in 1..N |-> IF j \in Batch(i) THEN started[j] + 1 ELSE started[j]]
  /\ failedPlugins' =
       PushAll(failedPlugins,
               {Failure(githubPlugins[j].name, "invalid url") :
                  j \in {x \in Batch(i) : gitUrlParseThrows(githubPlugins[x].githubUrl)}})
  /\ batches' = Append(batches, Batch(i))
  /\ mainPc' = "await"
  /\ UNCHANGED <<InputVars, ThreadVars, ListVars, webflow, algolia, i, cursor, createdPlugins,
                 updatedPlugins, deletedPlugins, exitCode, fatalCause, calls, faults,
                 storeFaults, sleeps, deleteFailed>>
  /\ raised' = [j \in 1..N |->
                  IF j \in Batch(i) /\ gitUrlParseThrows(githubPlugins[j].githubUrl)
                    THEN "invalid url" ELSE raised[j]]

\* Promise.race in place of Promise.all: the first settled call ends the wait.
BatchDoneAny == \E j \in Batch(i) : pc[j] = "done"

\* Promise.all not awaited: the loop goes on once the calls are started.
BatchDoneUnawaited == \A j \in Batch(i) : pc[j] # "idle"

\* A Promise.all that never resolves.
BatchDoneNever == FALSE

\* Promise.all of the batch resolves when every processPlugin has settled.
BatchDone == \A j \in Batch(i) : pc[j] = "done"

\* if (i + BATCH_SIZE < githubPlugins.length) await sleep(DELAY_MS);  i += BATCH_SIZE
BatchSettled ==
  /\ mainPc = "await"
  /\ BatchDone
  /\ IF i + BATCH_SIZE < N
       THEN /\ mainPc' = "sleep"
            /\ sleeps' = sleeps + 1
            /\ UNCHANGED i
       ELSE /\ mainPc' = "loop"
            /\ i' = i + BATCH_SIZE
            /\ UNCHANGED sleeps
  /\ UNCHANGED <<InputVars, ThreadVars, ListVars, ReportVars, webflow, algolia, cursor, pc,
                 exitCode, fatalCause, calls, faults, storeFaults, batches, started, raised,
                 deleteFailed>>

SleepDone ==
  /\ mainPc = "sleep"
  /\ mainPc' = "loop"
  /\ i' = i + BATCH_SIZE
  /\ UNCHANGED <<InputVars, ThreadVars, ListVars, ReportVars, webflow, algolia, cursor, pc,
                 exitCode, fatalCause, calls, faults, storeFaults, batches, sleeps, started, raised,
                 deleteFailed>>

\* The batch loop ends; the loop over webflowPlugins begins.
LoopExit ==
  /\ mainPc = "loop"
  /\ ~LoopGuard
  /\ mainPc' = "orphans"
  /\ cursor' = 1
  /\ UNCHANGED <<InputVars, ThreadVars, ListVars, ReportVars, webflow, algolia, i, pc,
                 exitCode, fatalCause, calls, faults, storeFaults, batches, sleeps, started, raised,
                 deleteFailed>>

----------------------------------------------------------------------------
\* processPlugin, one call per manifest position j

\* const webflowPlugin = findPluginByName(webflowPlugins, githubPlugin.name);
Existing(j) == findPluginByName(webflowPlugins, githubPlugins[j].name)
webflowPlugin(j) == webflowPlugins[Existing(j)]

\* if (!content)
NoContent(j) == Content(world[j]) = ""

\* No version deletes the record of an entry without README.
DeletesOnNoContentNever(v) == FALSE

\* Which versions delete an existing record when the README is missing:
\* if (webflowPlugin) await processDeletePlugin(webflowPlugin)
DeletesOnNoContent(v) == v = VHead

\* Every version updates every existing record.
ShouldUpdateAlways(j) == TRUE

\* isPluginEqual read as "the plugin is equal": if (!isPluginEqual(...)).
ShouldUpdateInverted(j) ==
  IF variant = VHead
    THEN ~isPluginEqual(githubPlugins[j], webflowPlugin(j).fieldData, Content(world[j]))
    ELSE TRUE

\* The change detection comparing every stored field with the derived one,
\* the star and download counts included.
ShouldUpdateOnAnyField(j) ==
  IF variant = VHead
    THEN webflowPlugin(j).fieldData # FieldData(githubPlugins[j], world[j])
    ELSE TRUE

\* Is an existing record updated: if (hasChanged) in VHead, always elsewhere.
ShouldUpdate(j) ==
  IF variant = VHead
    THEN isPluginEqual(githubPlugins[j], webflowPlugin(j).fieldData, Content(world[j]))
    ELSE TRUE

Settle(j) == pc' = [pc EXCEPT ![j] = "done"]
Goto(j, label) == pc' = [pc EXCEPT ![j] = label]

\* processPlugin without its try/catch: the exception rejects Promise.all and
\* reaches the catch of syncPlugins.
Escapes(j, message) ==
  /\ pc' = [pc EXCEPT ![j] = "done"]
  /\ faults' = faults + 1
  /\ raised' = [raised EXCEPT ![j] = message]
  /\ mainPc' = "fatal"
  /\ exitCode' = 1
  /\ fatalCause' = message
  /\ UNCHANGED <<failedPlugins, deleteFailed>>

\* A catch block that only logs, as processDeletePlugin's does.
CaughtSilently(j, message) ==
  /\ pc' = [pc EXCEPT ![j] = "done"]
  /\ faults' = faults + 1
  /\ raised' = [raised EXCEPT ![j] = message]
  /\ UNCHANGED <<ExitVars, failedPlugins, deleteFailed>>

\* The step after a call of processPlugin's try block threw: the catch block.
Caught(j, message) ==
  /\ failedPlugins' = Push(failedPlugins, Failure(githubPlugins[j].name, message))
  /\ Settle(j)
  /\ faults' = faults + 1
  /\ raised' = [raised EXCEPT ![j] = message]
  /\ UNCHANGED <<ExitVars, deleteFailed>>

\* The same for a call of processDeletePlugin's try block: its catch block
\* only logs.
CaughtByDelete(j, message) ==
  /\ Settle(j)
  /\ faults' = faults + 1
  /\ raised' = [raised EXCEPT ![j] = message]
  /\ deleteFailed' = deleteFailed \cup {webflowPlugin(j).fieldData.name}
  /\ UNCHANGED <<ExitVars, failedPlugins>>

Quiet == UNCHANGED <<ExitVars, faults, raised, deleteFailed>>

\* await Promise.all([getRepoInfo, getNpmDownloads, getReadmeContent]) resolves,
\* and processPlugin runs on to its next await.
EnrichSettle(j) ==
  /\ pc[j] = "enrich"
  /\ \/ /\ NoContent(j)
        /\ failedPlugins' = Push(failedPlugins, NoReadme(githubPlugins[j].name))
        /\ IF DeletesOnNoContent(variant) /\ Existing(j) # 0
             THEN /\ Goto(j, "deleteWebflow")
                  /\ calls' = Push(calls, Call("delete", "webflow", githubPlugins[j].name))
             ELSE /\ Settle(j)
                  /\ UNCHANGED calls
        /\ Quiet
     \/ /\ ~NoContent(j)
        /\ Existing(j) # 0
        /\ IF ShouldUpdate(j)
             THEN /\ Goto(j, "updateWebflow")
                  /\ calls' = Push(calls, Call("update", "webflow", githubPlugins[j].name))
             ELSE /\ Settle(j)
                  /\ UNCHANGED calls
        /\ Quiet
        /\ UNCHANGED failedPlugins
     \/ /\ ~NoContent(j)
        /\ Existing(j) = 0
        /\ Goto(j, "createWebflow")
        /\ calls' = Push(calls, Call("create", "webflow", githubPlugins[j].name))
        /\ Quiet
        /\ UNCHANGED failedPlugins
     \/ /\ MayThrow
        /\ Caught(j, "enrichment")
        /\ UNCHANGED calls
  /\ UNCHANGED <<InputVars, ThreadVars, ListVars, MainVars, webflow, algolia, createdPlugins,
                 updatedPlugins, deletedPlugins, storeFaults>>

\* await updateWebflowItem(collection, webflowPlugin.id, fieldData)
UpdateWebflowSettle(j) ==
  /\ pc[j] = "updateWebflow"
  /\ \/ /\ webflow' = updateWebflowItem(webflow, webflowPlugin(j).id,
                                        FieldData(githubPlugins[j], world[j]))
        /\ Goto(j, "updateAlgolia")
        /\ calls' = Push(calls, Call("update", "algolia", githubPlugins[j].name))
        /\ Quiet
        /\ UNCHANGED <<failedPlugins, storeFaults>>
     \/ /\ MayThrow
        /\ Caught(j, "updateWebflowItem")
        /\ storeFaults' = storeFaults + 1
        /\ UNCHANGED <<webflow, calls>>
  /\ UNCHANGED <<InputVars, ThreadVars, ListVars, MainVars, algolia, createdPlugins,
                 updatedPlugins, deletedPlugins>>

\* await updateAlgoliaItem(algoliaItem); updatedPlugins.push(githubPlugin.name);
\* webflowPluginIds.delete(githubPlugin.id) -- a manifest entry has no id, so
\* the set stays as it is
UpdateAlgoliaSettle(j) ==
  /\ pc[j] = "updateAlgolia"
  /\ \/ /\ algolia' = updateAlgoliaItem(algolia, AlgoliaItem(githubPlugins[j], world[j]))
        /\ updatedPlugins' = Push(updatedPlugins, githubPlugins[j].name)
        /\ Settle(j)
        /\ Quiet
        /\ UNCHANGED <<failedPlugins, storeFaults>>
     \/ /\ MayThrow
        /\ Caught(j, "updateAlgoliaItem")
        /\ storeFaults' = storeFaults + 1
        /\ UNCHANGED <<algolia, updatedPlugins>>
  /\ UNCHANGED <<InputVars, ThreadVars, ListVars, MainVars, webflow, createdPlugins,
                 deletedPlugins, calls>>

\* createWebflowItem with a catch of its own that logs and goes on: the index
\* call is issued although the content call threw.
CreateWebflowSettleUnguarded(j) ==
  /\ pc[j] = "createWebflow"
  /\ \/ /\ webflow' = createWebflowItem(webflow, FieldData(githubPlugins[j], world[j]))
        /\ UNCHANGED <<faults, storeFaults, raised>>
     \/ /\ MayThrow
        /\ faults' = faults + 1
        /\ storeFaults' = storeFaults + 1
        /\ raised' = [raised EXCEPT ![j] = "createWebflowItem"]
        /\ UNCHANGED webflow
  /\ pc' = [pc EXCEPT ![j] = "createAlgolia"]
  /\ calls' = Push(calls, Call("create", "algolia", githubPlugins[j].name))
  /\ UNCHANGED <<InputVars, ThreadVars, ListVars, MainVars, ExitVars, ReportVars, algolia,
                 deleteFailed>>

\* await createWebflowItem(collection, fieldData)
CreateWebflowSettle(j) ==
  /\ pc[j] = "createWebflow"
  /\ \/ /\ webflow' = createWebflowItem(webflow, FieldData(githubPlugins[j], world[j]))
        /\ Goto(j, "createAlgolia")
        /\ calls' = Push(calls, Call("create", "algolia", githubPlugins[j].name))
        /\ Quiet
        /\ UNCHANGED <<failedPlugins, storeFaults>>
     \/ /\ MayThrow
        /\ Caught(j, "createWebflowItem")
        /\ storeFaults' = storeFaults + 1
        /\ UNCHANGED <<webflow, calls>>
  /\ UNCHANGED <<InputVars, ThreadVars, ListVars, MainVars, algolia, createdPlugins,
                 updatedPlugins, deletedPlugins>>

\* await createAlgoliaItem(algoliaItem); createdPlugins.push(githubPlugin.name)
CreateAlgoliaSettle(j) ==
  /\ pc[j] = "createAlgolia"
  /\ \/ /\ algolia' = createAlgoliaItem(algolia, AlgoliaItem(githubPlugins[j], world[j]))
        /\ createdPlugins' = Push(createdPlugins, githubPlugins[j].name)
        /\ Settle(j)
        /\ Quiet
        /\ UNCHANGED <<failedPlugins, storeFaults>>
     \/ /\ MayThrow
        /\ Caught(j, "createAlgoliaItem")
        /\ storeFaults' = storeFaults + 1
        /\ UNCHANGED <<algolia, createdPlugins>>
  /\ UNCHANGED <<InputVars, ThreadVars, ListVars, MainVars, webflow, updatedPlugins,
                 deletedPlugins, calls>>

\* processDeletePlugin(webflowPlugin) called from processPlugin (VHead):
\* await deleteWebflowItem(collection, webflowPlugin.id)
DeleteWebflowSettle(j) ==
  /\ pc[j] = "deleteWebflow"
  /\ \/ /\ webflow' = deleteWebflowItem(webflow, webflowPlugin(j).id)
        /\ Goto(j, "deleteAlgolia")
        /\ calls' = Push(calls, Call("delete", "algolia", githubPlugins[j].name))
        /\ Quiet
        /\ UNCHANGED <<failedPlugins, storeFaults>>
     \/ /\ MayThrow
        /\ CaughtByDelete(j, "deleteWebflowItem")
        /\ storeFaults' = storeFaults + 1
        /\ UNCHANGED <<webflow, calls>>
  /\ UNCHANGED <<InputVars, ThreadVars, ListVars, MainVars, algolia, createdPlugins,
                 updatedPlugins, deletedPlugins>>

\* await deleteAlgoliaItem(webflowPlugin.fieldData.slug);
\* deletedPlugins.push(webflowPlugin.fieldData.name)
DeleteAlgoliaSettle(j) ==
  /\ pc[j] = "deleteAlgolia"
  /\ \/ /\ algolia' = deleteAlgoliaItem(algolia, webflowPlugin(j).fieldData.slug)
        /\ deletedPlugins' = Push(deletedPlugins, webflowPlugin(j).fieldData.name)
        /\ Settle(j)
        /\ Quiet
        /\ UNCHANGED <<failedPlugins, storeFaults>>
     \/ /\ MayThrow
        /\ CaughtByDelete(j, "deleteAlgoliaItem")
        /\ storeFaults' = storeFaults + 1
        /\ UNCHANGED <<algolia, deletedPlugins>>
  /\ UNCHANGED <<InputVars, ThreadVars, ListVars, MainVars, webflow, createdPlugins,
                 updatedPlugins, calls>>

----------------------------------------------------------------------------
\* The loop over webflowPlugins, and the end of syncPlugins

\* No version has processDeletePlugin's try/catch.
DeleteIsGuardedNever(v) == FALSE

\* Which versions have the deletions in processDeletePlugin, whose try/catch
\* swallows a failing store call; the others call the stores from syncPlugins.
DeleteIsGuarded(v) == v = VHead

\* Which versions call generateReadme / postReportToPR.
HasGenerateReadme(v) == v \in {VHead, VPart}
HasReportToPR(v) == v \in {VTail, VPart}

\* The orphan test without its negation.
IsOrphanInverted(webflowItem) ==
  findPluginByName(githubPlugins, webflowItem.fieldData.name) # 0

\* The orphan test taking the record of a failed entry for an orphan too.
IsOrphanOrFailed(webflowItem) ==
  \/ findPluginByName(githubPlugins, webflowItem.fieldData.name) = 0
  \/ \E f \in BagToSet(failedPlugins) : f.name = webflowItem.fieldData.name

\* The loop over the records without its test: every listed record is deleted.
IsOrphanAlways(webflowItem) == TRUE

\* The loop over the records deciding by the set of names left in
\* webflowPluginIds instead of the manifest.
IsOrphanByIds(webflowItem) == webflowItem.fieldData.name \in webflowPluginIds

\* if (!findPluginByName(githubPlugins, webflowPlugin.fieldData.name))
IsOrphan(webflowItem) == findPluginByName(githubPlugins, webflowItem.fieldData.name) = 0

AfterOrphans == IF HasGenerateReadme(variant) THEN "readme" ELSE "report"

\* for (const webflowPlugin of webflowPlugins): the loop head and the test.
OrphanNext ==
  /\ mainPc = "orphans"
  /\ IF cursor > Len(webflowPlugins)
       THEN /\ mainPc' = AfterOrphans
            /\ UNCHANGED <<cursor, calls>>
       ELSE IF IsOrphan(webflowPlugins[cursor])
         THEN /\ mainPc' = "orphanWebflow"
              /\ calls' = Push(calls, Call("delete", "webflow",
                                           webflowPlugins[cursor].fieldData.name))
              /\ UNCHANGED cursor
         ELSE /\ cursor' = cursor + 1
              /\ UNCHANGED <<mainPc, calls>>
  /\ UNCHANGED <<InputVars, ThreadVars, ListVars, ReportVars, webflow, algolia, i, pc,
                 exitCode, fatalCause, faults, storeFaults, batches, sleeps, started, raised,
                 deleteFailed>>

\* A store call of the orphan loop threw: processDeletePlugin's catch logs it
\* and the loop goes on; without processDeletePlugin it reaches the catch of
\* syncPlugins.
OrphanThrew(cause) ==
  /\ storeFaults' = storeFaults + 1
  /\ IF DeleteIsGuarded(variant)
       THEN /\ mainPc' = "orphans"
            /\ cursor' = cursor + 1
            /\ faults' = faults + 1
            /\ deleteFailed' = deleteFailed \cup {webflowPlugins[cursor].fieldData.name}
            /\ UNCHANGED <<exitCode, fatalCause>>
       ELSE /\ Fatal(cause)
            /\ UNCHANGED <<cursor, deleteFailed>>

\* await deleteWebflowItem(collection, webflowPlugin.id)
OrphanWebflowSettle ==
  /\ mainPc = "orphanWebflow"
  /\ \/ /\ webflow' = deleteWebflowItem(webflow, webflowPlugins[cursor].id)
        /\ mainPc' = "orphanAlgolia"
        /\ calls' = Push(calls, Call("delete", "algolia",
                                     webflowPlugins[cursor].fieldData.name))
        /\ UNCHANGED <<cursor, exitCode, fatalCause, faults, storeFaults, deleteFailed>>
     \/ /\ MayThrow
        /\ OrphanThrew("deleteWebflowItem")
        /\ UNCHANGED <<webflow, calls>>
  /\ UNCHANGED <<InputVars, ThreadVars, ListVars, ReportVars, algolia, i, pc, batches,
                 sleeps, started, raised>>

\* await deleteAlgoliaItem(webflowPlugin.fieldData.slug);
\* deletedPlugins.push(webflowPlugin.fieldData.name)
OrphanAlgoliaSettle ==
  /\ mainPc = "orphanAlgolia"
  /\ \/ /\ algolia' = deleteAlgoliaItem(algolia, webflowPlugins[cursor].fieldData.slug)
        /\ deletedPlugins' = Push(deletedPlugins, webflowPlugins[cursor].fieldData.name)
        /\ mainPc' = "orphans"
        /\ cursor' = cursor + 1
        /\ UNCHANGED <<exitCode, fatalCause, faults, storeFaults, deleteFailed>>
     \/ /\ MayThrow
        /\ OrphanThrew("deleteAlgoliaItem")
        /\ UNCHANGED <<algolia, deletedPlugins>>
  /\ UNCHANGED <<InputVars, ThreadVars, ListVars, webflow, i, pc, createdPlugins,
                 updatedPlugins, failedPlugins, calls, batches, sleeps, started, raised>>

\* plugins.sort(...) of generateReadme: by name.
\* The sort is stable: position k of the result is the entry that has k - 1
\* entries before it, by name and, for equal names, by position.
SortByName(plugins) ==
  LET before(y, x) == \/ plugins[y].name < plugins[x].name
                      \/ plugins[y].name = plugins[x].name /\ y < x
  IN [k \in 1..Len(plugins) |->
        plugins[CHOOSE x \in 1..Len(plugins) :
                  Cardinality({y \in 1..Len(plugins) : before(y, x)}) = k - 1]]

\* await generateReadme(githubPlugins): VHead sorts the array it is given,
\* VPart reads plugins.json again and sorts that.
GenerateReadme ==
  /\ mainPc = "readme"
  /\ \/ /\ mainPc' = "report"
        /\ githubPlugins' = IF variant = VHead THEN SortByName(githubPlugins)
                            ELSE githubPlugins
        /\ UNCHANGED <<exitCode, fatalCause, faults>>
     \/ /\ MayThrow
        /\ Fatal("generateReadme")
        /\ UNCHANGED githubPlugins
  /\ UNCHANGED <<variant, world, rerun, run, previousCalls, ThreadVars, ListVars,
                 ReportVars, webflow,
                 algolia, i, cursor, pc, calls, storeFaults, batches, sleeps,
                 started, raised,
                 deleteFailed>>

\* What triggered the workflow, as far as the script tells triggers apart.
Events == {"pull_request", "push"}

Heading == "## Sync Report"

\* generateReport(): the template literal opens with a line break, the
\* heading follows, then the lengths of the four lists.  A body is its text
\* up to the heading, as pieces, and the numbers rendered after it.
generateReport ==
  [text |-> <<"\n", Heading>>,
   counts |-> <<BagCardinality(createdPlugins), BagCardinality(updatedPlugins),
                BagCardinality(deletedPlugins), BagCardinality(failedPlugins)>>]

\* body.startsWith(marker), body.includes(marker)
startsWith(body, marker) == Len(body.text) > 0 /\ body.text[1] = marker
includes(body, marker) == \E k \in 1..Len(body.text) : body.text[k] = marker

\* comment.body.startsWith('## Sync Report') in sync-plugins.js,
\* comment.body.includes('## Sync Report') in unnamed/part_000.
MatchesHeading(v, body) ==
  IF v = VTail THEN startsWith(body, Heading) ELSE includes(body, Heading)

\* comments.find(...): the position of the first match, 0 when there is none.
existingComment(v, thread) ==
  LET hits == {k \in 1..Len(thread) : MatchesHeading(v, thread[k])}
  IN IF hits = {} THEN 0 ELSE Min(hits)

RECURSIVE TrimStart(_)
TrimStart(text) ==
  IF text # <<>> /\ Head(text) = "\n" THEN TrimStart(Tail(text)) ELSE text

\* The body as the comment service keeps it: as posted, or without its
\* leading white space; which of the two is not the script's to decide.
SavedBody(body, trimmed) ==
  IF trimmed THEN [body EXCEPT !.text = TrimStart(@)] ELSE body

\* octokit.rest.issues.createComment / updateComment
createComment(thread, body) == Append(thread, body)
updateComment(thread, id, body) == [thread EXCEPT ![id] = body]

\* The summary is printed; VTail and VPart go on to postReportToPR when
\* process.env.GITHUB_EVENT_NAME === 'pull_request'.
Report ==
  /\ mainPc = "report"
  /\ \E event \in Events :
       /\ eventName' = event
       /\ IF HasReportToPR(variant) /\ event = "pull_request"
            THEN /\ mainPc' = "post"
                 /\ UNCHANGED exitCode
            ELSE /\ mainPc' = "done"
                 /\ exitCode' = 0
  /\ UNCHANGED <<InputVars, comments, commentCalls, ListVars, ReportVars, webflow, algolia, i, cursor,
                 pc, calls, faults, storeFaults, batches, sleeps, started, raised,
                 deleteFailed, fatalCause>>

\* await postReportToPR(report)
PostReport ==
  /\ mainPc = "post"
  /\ \/ /\ \E trimmed \in BOOLEAN :
             LET found == existingComment(variant, comments)
                 body == SavedBody(generateReport, trimmed)
             IN IF found # 0
                  THEN /\ comments' = updateComment(comments, found, body)
                       /\ commentCalls' = Push(commentCalls, "updateComment")
                  ELSE /\ comments' = createComment(comments, body)
                       /\ commentCalls' = Push(commentCalls, "createComment")
        /\ mainPc' = "done"
        /\ exitCode' = 0
        /\ UNCHANGED <<faults, fatalCause>>
     \/ /\ MayThrow
        /\ Fatal("postReportToPR")
        /\ UNCHANGED <<comments, commentCalls>>
  /\ UNCHANGED <<InputVars, eventName, ListVars, ReportVars, webflow, algolia, i, cursor,
                 pc, calls, storeFaults, batches, sleeps, started, raised,
                 deleteFailed>>

\* The workflow runs the script again later: a new process, the same
\* plugins.json, the same enrichment answers, the stores as the first run
\* left them.  The second run modelled is the one that follows a first run
\* in which no call threw; after a first run that left a comment, it is
\* modelled for the manifests of at most one entry.
Rerun ==
  /\ mainPc = "done"
  /\ rerun
  /\ run = 1
  /\ faults = 0
  /\ comments # <<>> => N <= 1
  /\ run' = 2
  /\ mainPc' = "start"
  /\ i' = 0
  /\ cursor' = 0
  /\ exitCode' = -1
  /\ pc' = [j \in 1..N |-> "idle"]
  /\ webflowPlugins' = <<>>
  /\ webflowPluginIds' = {}
  /\ createdPlugins' = EmptyBag
  /\ updatedPlugins' = EmptyBag
  /\ deletedPlugins' = EmptyBag
  /\ failedPlugins' = EmptyBag
  /\ calls' = EmptyBag
  /\ storeFaults' = 0
  /\ batches' = <<>>
  /\ sleeps' = 0
  /\ started' = [j \in 1..N |-> 0]
  /\ raised' = [j \in 1..N |-> ""]
  /\ deleteFailed' = {}
  /\ previousCalls' = calls
  /\ eventName' = ""
  /\ commentCalls' = EmptyBag
  /\ UNCHANGED <<variant, githubPlugins, world, rerun, webflow, algolia, faults,
                 fatalCause, comments>>

Next ==
  \/ ReadManifest
  \/ ListAlgolia
  \/ ListWebflow
  \/ StartBatch
  \/ BatchSettled
  \/ SleepDone
  \/ LoopExit
  \/ \E j \in 1..N :
       \/ EnrichSettle(j)
       \/ UpdateWebflowSettle(j)
       \/ UpdateAlgoliaSettle(j)
       \/ CreateWebflowSettle(j)
       \/ CreateAlgoliaSettle(j)
       \/ DeleteWebflowSettle(j)
       \/ DeleteAlgoliaSettle(j)
  \/ OrphanNext
  \/ OrphanWebflowSettle
  \/ OrphanAlgoliaSettle
  \/ GenerateReadme
  \/ Report
  \/ PostReport
  \/ Rerun

Spec == Init /\ [][Next]_vars

----------------------------------------------------------------------------
\* Vocabulary of the properties

RunCompleted == mainPc = "done"

\* The README fetch of position j returned content.
ReadmeFetched(j) ==
  /\ ~gitUrlParseThrows(githubPlugins[j].githubUrl)
  /\ raised[j] # "enrichment"
  /\ ~NoContent(j)

\* Every store call of this run so far succeeded.
StoreCallsSucceed == storeFaults = 0

RecordsWithSlug(slug) == {id \in DOMAIN webflow : webflow[id].slug = slug}

CallsFor(name) == {c \in BagToSet(calls) : c.name = name}

\* The runs in which the content store never holds two records of one slug
\* (a store that enforces the uniqueness of its slug field).
NextUnique == Next /\ DistinctSlugs(webflow')
SpecUnique == Init /\ [][NextUnique]_vars

\* No other parsable manifest entry and no listed record of another name has
\* the slug of position j.
SlugIsOwn(j) ==
  /\ \A k \in 1..N :
       (k # j /\ ~gitUrlParseThrows(githubPlugins[k].githubUrl)) =>
         slugOf(githubPlugins[k]) # slugOf(githubPlugins[j])
  /\ \A x \in 1..Len(webflowPlugins) :
       webflowPlugins[x].fieldData.name # githubPlugins[j].name =>
         webflowPlugins[x].fieldData.slug # slugOf(githubPlugins[j])

\* C1: for every manifest entry whose README fetch returns content and that
\* has no record in the listing, after a run whose store calls succeed each
\* store holds exactly one record keyed by the entry's slug, and the entry's
\* name is in createdPlugins exactly once.
C1_CreatedOnce ==
  (RunCompleted /\ StoreCallsSucceed) =>
    \A j \in 1..N :
      (ReadmeFetched(j) /\ Existing(j) = 0) =>
        /\ Cardinality(RecordsWithSlug(slugOf(githubPlugins[j]))) = 1
        /\ slugOf(githubPlugins[j]) \in DOMAIN algolia
        /\ Count(createdPlugins, githubPlugins[j].name) = 1

----------------------------------------------------------------------------
\* Entries with a prior record

\* The listed record of position j holds exactly the fields derived from the
\* manifest entry and the enrichment answers.
ExactMatch(j) ==
  /\ Existing(j) # 0
  /\ ~gitUrlParseThrows(githubPlugins[j].githubUrl)
  /\ webflowPlugin(j).fieldData = FieldData(githubPlugins[j], world[j])

\* The listed record of position j differs from the derived fields.
Differs(j) ==
  /\ Existing(j) # 0
  /\ ~gitUrlParseThrows(githubPlugins[j].githubUrl)
  /\ webflowPlugin(j).fieldData # FieldData(githubPlugins[j], world[j])

\* The fields the change detection looks at.
Tracked(fd) ==
  [name |-> fd.name, description |-> fd.description, github |-> fd.github,
   active |-> fd.active, content |-> fd.content]

TrackedDiffers(j) ==
  Tracked(webflowPlugin(j).fieldData) # Tracked(FieldData(githubPlugins[j], world[j]))

Untouched(j) ==
  /\ CallsFor(githubPlugins[j].name) = {}
  /\ Count(createdPlugins, githubPlugins[j].name) = 0
  /\ Count(updatedPlugins, githubPlugins[j].name) = 0

UpdatedOnce(j) ==
  /\ webflowPlugin(j).id \in DOMAIN webflow
  /\ webflow[webflowPlugin(j).id] = FieldData(githubPlugins[j], world[j])
  /\ Count(updatedPlugins, githubPlugins[j].name) = 1

IndexUpdated(j) ==
  /\ slugOf(githubPlugins[j]) \in DOMAIN algolia
  /\ algolia[slugOf(githubPlugins[j])] = AlgoliaItem(githubPlugins[j], world[j])

\* C3 as the specification states it: after a run, every entry with README
\* content whose stored fields differ from the derived ones has both records
\* equal to the derived fields and is in updatedPlugins exactly once.
C3_UpdatedWhenDifferent ==
  RunCompleted =>
    \A j \in 1..N :
      (ReadmeFetched(j) /\ Differs(j)) => (UpdatedOnce(j) /\ IndexUpdated(j))

\* C3: after a run whose store calls succeed, every entry with README
\* content whose stored fields differ from the derived ones -- in the version
\* with change detection: differ in name, description, URL, active flag or
\* content -- had one update call to each store, its content record equals
\* the derived fields, its name is in updatedPlugins exactly once, and its
\* index item equals the derived item when the slug is the entry's alone.
C3_UpdatedWhenTrackedDifferent ==
  (RunCompleted /\ StoreCallsSucceed) =>
    \A j \in 1..N :
      (ReadmeFetched(j) /\ Differs(j) /\ (variant = VHead => TrackedDiffers(j))) =>
        /\ UpdatedOnce(j)
        /\ Count(calls, Call("update", "webflow", githubPlugins[j].name)) = 1
        /\ Count(calls, Call("update", "algolia", githubPlugins[j].name)) = 1
        /\ SlugIsOwn(j) => IndexUpdated(j)

C3_Witness ==
  /\ variant = VHead
  /\ RunCompleted
  /\ StoreCallsSucceed
  /\ \E j \in 1..N :
       ReadmeFetched(j) /\ Differs(j) /\ TrackedDiffers(j) /\ UpdatedOnce(j)
         /\ IndexUpdated(j)

----------------------------------------------------------------------------
\* Deletions

\* The listed records whose name the manifest does not have.
ListedOrphans == {x \in 1..Len(webflowPlugins) : IsOrphan(webflowPlugins[x])}

NoRecordNamed(name) ==
  /\ \A id \in DOMAIN webflow : webflow[id].name # name
  /\ \A o \in DOMAIN algolia : algolia[o].name # name

SettledWithoutReadme(j) ==
  /\ pc[j] = "done"
  /\ started[j] = 1
  /\ ~gitUrlParseThrows(githubPlugins[j].githubUrl)
  /\ raised[j] # "enrichment"
  /\ NoContent(j)

NoCreateNoUpdate(j) ==
  /\ \A c \in CallsFor(githubPlugins[j].name) : c.op = "delete"
  /\ Count(createdPlugins, githubPlugins[j].name) = 0
  /\ Count(updatedPlugins, githubPlugins[j].name) = 0
  /\ Count(failedPlugins, NoReadme(githubPlugins[j].name)) = 1

\* The listed record of position j has left both stores.
PriorRecordDeleted(j) ==
  /\ webflowPlugin(j).id \notin DOMAIN webflow
  /\ \A o \in DOMAIN algolia :
       ~(o = webflowPlugin(j).fieldData.slug /\ algolia[o].name = githubPlugins[j].name)
  /\ Count(deletedPlugins, githubPlugins[j].name) = 1

----------------------------------------------------------------------------
\* The batch loop

\* ceil(n / BATCH_SIZE)
NumBatches == (N + BATCH_SIZE - 1) \div BATCH_SIZE

\* syncPlugins has left the batch loop.
LoopOver ==
  mainPc \in {"orphans", "orphanWebflow", "orphanAlgolia", "readme", "report",
              "post", "done"}

----------------------------------------------------------------------------
\* Exceptions and the exit code

FailedEntriesFor(name) == {f \in BagToSet(failedPlugins) : f.name = name}

\* The name has exactly one entry in failedPlugins, and it is entry.
OnlyFailedEntry(name, entry) ==
  /\ FailedEntriesFor(name) = {entry}
  /\ Count(failedPlugins, entry) = 1

\* The calls syncPlugins makes outside processPlugin and processDeletePlugin.
OrchestrationCalls ==
  {"getGithubPluginsList", "listAlgoliaItems", "listWebflowCollectionItems",
   "deleteWebflowItem", "deleteAlgoliaItem", "generateReadme", "postReportToPR"}

DeleteCalls == {"deleteWebflowItem", "deleteAlgoliaItem"}

\* An exception raised inside processPlugin never reaches syncPlugins: the
\* script exits 1 only for a call of syncPlugins itself, and then no
\* processPlugin call is in flight.
Contained ==
  /\ exitCode = 1 => fatalCause \in OrchestrationCalls
  /\ mainPc = "fatal" => \A j \in 1..N : pc[j] \in {"idle", "done"}
  /\ \A j \in 1..N : raised[j] # "" => pc[j] = "done"
  /\ RunCompleted => \A j \in 1..N : started[j] = 1 /\ pc[j] = "done"

ExitCodeShape ==
  /\ exitCode \in {-1, 0, 1}
  /\ exitCode = 0 <=> RunCompleted
  /\ exitCode = 1 <=> mainPc = "fatal"
  /\ exitCode = 1 <=> fatalCause # ""
  /\ exitCode = 1 => (faults >= 1 /\ fatalCause \in OrchestrationCalls)

\* C9 as the specification states it: the exit code is 0 when syncPlugins
\* completes and non-zero exactly when an exception reaches its catch; a
\* failing store call on one catalogue record never leads to a non-zero exit.
C9_ExitCode ==
  /\ ExitCodeShape
  /\ exitCode = 1 => fatalCause \notin DeleteCalls

\* C9: the exit code is 0 when syncPlugins completes and 1 exactly when an
\* exception reaches its catch; a failing store call of processPlugin or
\* processDeletePlugin never leads to exit code 1, while in the versions that
\* delete orphans inline (sync-plugins.js lines 309-551, unnamed/part_000) a
\* failing delete call on an orphan record does.
C9_ExitCodeOrphanDelete ==
  /\ ExitCodeShape
  /\ (exitCode = 1 /\ fatalCause \in DeleteCalls) =>
       /\ variant # VHead
       /\ cursor \in ListedOrphans
       /\ storeFaults >= 1

C9_Witness ==
  /\ variant = VPart
  /\ mainPc = "fatal"
  /\ exitCode = 1
  /\ fatalCause = "deleteAlgoliaItem"
  /\ createdPlugins # EmptyBag

\* C10: batches run strictly one after the other: when any processPlugin
\* call of a batch has started, every call of every earlier batch has
\* settled, and the calls in flight all belong to the current batch.
C10_BatchOrder ==
  /\ \A j, k \in 1..N :
       ((j - 1) \div BATCH_SIZE < (k - 1) \div BATCH_SIZE /\ started[k] >= 1) =>
         pc[j] = "done"
  /\ \A j \in 1..N :
       pc[j] \notin {"idle", "done"} => (mainPc = "await" /\ j \in Batch(i))
  /\ \A j \in 1..N : (pc[j] = "idle") <=> (started[j] = 0)

C10_Witness ==
  /\ N > BATCH_SIZE
  /\ mainPc = "await"
  /\ i = BATCH_SIZE
  /\ \E k \in Batch(i) : pc[k] \notin {"idle", "done"}
  /\ \E j \in 1..BATCH_SIZE : raised[j] # ""
  /\ createdPlugins # EmptyBag

----------------------------------------------------------------------------
\* The order of the two store calls of one entry

WriteCount(op, store, j) == Count(calls, Call(op, store, githubPlugins[j].name))

ContentWriteFailed(j) == raised[j] \in {"createWebflowItem", "updateWebflowItem"}

\* C11: for one manifest entry, in the create path and in the update path,
\* the index-store call is issued only after the content-store call has been
\* issued and has succeeded: while the content call is pending no index call
\* exists, when the index call is pending the content record holds the new
\* fields, and after a content call that threw no index call is ever issued.
C11_ContentBeforeIndex ==
  \A j \in 1..N :
    /\ \A op \in {"create", "update"} :
         /\ WriteCount(op, "algolia", j) <= WriteCount(op, "webflow", j)
         /\ WriteCount(op, "webflow", j) <= 1
    /\ pc[j] \in {"createWebflow", "updateWebflow"} =>
         WriteCount("create", "algolia", j) + WriteCount("update", "algolia", j) = 0
    /\ ContentWriteFailed(j) =>
         WriteCount("create", "algolia", j) + WriteCount("update", "algolia", j) = 0
    /\ pc[j] = "createAlgolia" =>
         /\ WriteCount("create", "webflow", j) = 1
         /\ NewId(FieldData(githubPlugins[j], world[j])) \in DOMAIN webflow
         /\ webflow[NewId(FieldData(githubPlugins[j], world[j]))]
              = FieldData(githubPlugins[j], world[j])
    /\ pc[j] = "updateAlgolia" =>
         /\ WriteCount("update", "webflow", j) = 1
         /\ webflow[webflowPlugin(j).id] = FieldData(githubPlugins[j], world[j])

C11_Witness ==
  /\ RunCompleted
  /\ \E j, k \in 1..N :
       /\ raised[j] = "createWebflowItem"
       /\ WriteCount("create", "webflow", j) = 1
       /\ WriteCount("create", "algolia", j) = 0
       /\ Count(updatedPlugins, githubPlugins[k].name) = 1
       /\ WriteCount("update", "algolia", k) = 1

----------------------------------------------------------------------------
\* Items of the index store without a manifest entry

\* C12: after a run in which all store calls succeed, the index store holds
\* no item whose name the manifest lacks, the items that had no content
\* record at the start of the run included.
C12_IndexClean ==
  (RunCompleted /\ StoreCallsSucceed) =>
    \A o \in DOMAIN algolia : findPluginByName(githubPlugins, algolia[o].name) # 0

----------------------------------------------------------------------------
\* One store written, the other not

IndexWriteFailed(j) == raised[j] \in {"createAlgoliaItem", "updateAlgoliaItem"}

InNoSuccessList(name) ==
  /\ Count(createdPlugins, name) = 0
  /\ Count(updatedPlugins, name) = 0
  /\ Count(deletedPlugins, name) = 0

\* The content write of position j stays and no further call follows it.
WriteKept(j) ==
  LET op == IF raised[j] = "createAlgoliaItem" THEN "create" ELSE "update"
      id == IF op = "create" THEN NewId(FieldData(githubPlugins[j], world[j]))
            ELSE webflowPlugin(j).id
  IN /\ CallsFor(githubPlugins[j].name)
          = {Call(op, "webflow", githubPlugins[j].name),
             Call(op, "algolia", githubPlugins[j].name)}
     /\ WriteCount(op, "webflow", j) = 1
     /\ WriteCount(op, "algolia", j) = 1
     /\ id \in DOMAIN webflow
     /\ webflow[id] = FieldData(githubPlugins[j], world[j])

\* The listed orphans whose content record was deleted and whose index
\* delete threw.
HalfDeletedOrphans ==
  {x \in ListedOrphans :
     /\ webflowPlugins[x].fieldData.name \in deleteFailed
     /\ Count(calls, Call("delete", "algolia", webflowPlugins[x].fieldData.name)) = 1}

DeleteKept(name, id) ==
  /\ id \notin DOMAIN webflow
  /\ \A c \in CallsFor(name) : c.op = "delete"
  /\ InNoSuccessList(name)

----------------------------------------------------------------------------
\* The slug as the key of the index

ItemsNamed(name) == {o \in DOMAIN algolia : algolia[o].name = name}

\* C14: the slug identifies an entry across both stores: after a run whose
\* store calls succeed, two entries of distinct names that were both created
\* have distinct objectIDs and each its own item, with its own name and
\* fields, in the index, and every entry with README content has exactly one
\* index item.
C14_SlugIdentifies ==
  (RunCompleted /\ StoreCallsSucceed) =>
    /\ \A j, k \in 1..N :
         (j # k /\ Count(createdPlugins, githubPlugins[j].name) = 1
                /\ Count(createdPlugins, githubPlugins[k].name) = 1) =>
           /\ slugOf(githubPlugins[j]) # slugOf(githubPlugins[k])
           /\ IndexUpdated(j)
           /\ IndexUpdated(k)
    /\ \A j \in 1..N :
         ReadmeFetched(j) => Cardinality(ItemsNamed(githubPlugins[j].name)) = 1

----------------------------------------------------------------------------
\* The processPlugin calls in flight

InFlight == {j \in 1..N : pc[j] \notin {"idle", "done"}}

\* The calls still waiting for their three enrichment requests.
Enriching == {j \in InFlight : pc[j] = "enrich"}

\* C15: in every state at most BATCH_SIZE processPlugin calls are in flight,
\* all of them of the batch the loop is waiting for, so at most
\* 3 * BATCH_SIZE enrichment requests and at most BATCH_SIZE sequences of
\* store calls are outstanding, and none outside the wait on a batch.
C15_InFlightBound ==
  /\ Cardinality(InFlight) <= BATCH_SIZE
  /\ InFlight \subseteq Batch(i)
  /\ 3 * Cardinality(Enriching) <= 3 * BATCH_SIZE
  /\ Cardinality(InFlight \ Enriching) <= BATCH_SIZE
  /\ InFlight # {} => mainPc \in {"await", "fatal"}

C15_Witness ==
  /\ i = BATCH_SIZE
  /\ N > 2 * BATCH_SIZE
  /\ Cardinality(InFlight) = BATCH_SIZE
  /\ InFlight \ Enriching # {}

----------------------------------------------------------------------------
\* The loop over the listed records

OrphanPhase == mainPc \in {"orphans", "orphanWebflow", "orphanAlgolia"}

OrphanDeletes(x, store) ==
  Count(calls, Call("delete", store, webflowPlugins[x].fieldData.name))

\* Both deletes of the listed orphan x have completed, or one of them threw.
OrphanSettled(x) ==
  \/ /\ Count(deletedPlugins, webflowPlugins[x].fieldData.name) = 1
     /\ OrphanDeletes(x, "webflow") = 1
     /\ OrphanDeletes(x, "algolia") = 1
     /\ webflowPlugins[x].id \notin DOMAIN webflow
  \/ webflowPlugins[x].fieldData.name \in deleteFailed

\* C16: the loop over the orphans starts only after the last batch has
\* settled and is sequential: while it runs no processPlugin call is in
\* flight, no store call has been issued for an orphan behind the loop's
\* position, every orphan before it has both deletes completed (or one of
\* them thrown), and the index delete of the orphan at the position is issued
\* only after its content delete has completed.
C16_OrphansSequential ==
  /\ OrphanPhase => (InFlight = {} /\ ~LoopGuard /\ \A j \in 1..N : pc[j] = "done")
  /\ \A x \in ListedOrphans :
       /\ x > cursor => (OrphanDeletes(x, "webflow") = 0 /\ OrphanDeletes(x, "algolia") = 0)
       /\ (x < cursor /\ cursor > 0) => OrphanSettled(x)
       /\ OrphanDeletes(x, "algolia") <= OrphanDeletes(x, "webflow")
       /\ OrphanDeletes(x, "webflow") <= 1
       /\ OrphanDeletes(x, "algolia") = 1 => webflowPlugins[x].id \notin DOMAIN webflow
       /\ (x = cursor /\ mainPc = "orphanWebflow") =>
            (OrphanDeletes(x, "webflow") = 1 /\ OrphanDeletes(x, "algolia") = 0)
       /\ (x = cursor /\ mainPc = "orphans") => OrphanDeletes(x, "webflow") = 0

C16_Witness ==
  /\ mainPc = "orphanAlgolia"
  /\ N > 0
  /\ \E x, y \in ListedOrphans :
       /\ x < y
       /\ y = cursor
       /\ OrphanSettled(x)
       /\ Count(deletedPlugins, webflowPlugins[x].fieldData.name) = 1
       /\ OrphanDeletes(y, "webflow") = 1

----------------------------------------------------------------------------
\* A failed write and the record it was about

WriteFailed(j) ==
  raised[j] \in {"createWebflowItem", "createAlgoliaItem",
                 "updateWebflowItem", "updateAlgoliaItem"}

DeletesFor(name) ==
  Count(calls, Call("delete", "webflow", name)) + Count(calls, Call("delete", "algolia", name))

\* C17: when a create or update call throws for an entry that has a record,
\* the entry is in failedPlugins with the error, no delete call is issued
\* for its name in either store, by processPlugin or by the loop over the
\* records, and its record stays; delete calls for a manifest
\* name are issued, and its record is removed, only when the entry has a
\* record and no README content.
C17_FailedWriteKeepsRecord ==
  \A j \in 1..N :
    /\ (WriteFailed(j) /\ Existing(j) # 0) =>
         /\ OnlyFailedEntry(githubPlugins[j].name, Failure(githubPlugins[j].name, raised[j]))
         /\ DeletesFor(githubPlugins[j].name) = 0
         /\ webflowPlugin(j).id \in DOMAIN webflow
    /\ DeletesFor(githubPlugins[j].name) > 0 => (Existing(j) # 0 /\ NoContent(j))
    /\ (Existing(j) # 0 /\ webflowPlugin(j).id \notin DOMAIN webflow) => NoContent(j)

C17_Witness ==
  /\ RunCompleted
  /\ \E j \in 1..N, x \in ListedOrphans :
       /\ raised[j] = "updateWebflowItem"
       /\ Existing(j) # 0
       /\ Count(deletedPlugins, webflowPlugins[x].fieldData.name) = 1
       /\ webflowPlugin(j).id \in DOMAIN webflow

----------------------------------------------------------------------------
\* Enrichment answers that are missing

\* getRepoInfo resolved to nothing and getNpmDownloads to 0.
LookupsMissing(j) == ~world[j].repoInfo.found /\ world[j].npmDownloads = 0

\* processPlugin of position j has returned without any exception.
Returned(j) == pc[j] = "done" /\ raised[j] = ""

Defaulted(fd) == fd.githubStars = 0 /\ fd.npmDownloads = 0 /\ fd.author = ""

----------------------------------------------------------------------------
\* Counts that changed under an unchanged manifest entry

\* The listed record of position j has the entry's name, description, URL,
\* active flag and README content, and another star or download count than
\* the one fetched.
OnlyCountsDiffer(j) ==
  /\ Existing(j) # 0
  /\ ~gitUrlParseThrows(githubPlugins[j].githubUrl)
  /\ ~TrackedDiffers(j)
  /\ \/ webflowPlugin(j).fieldData.githubStars # Stars(world[j])
     \/ webflowPlugin(j).fieldData.npmDownloads # world[j].npmDownloads

\* C19: with change detection (sync-plugins.js lines 1-307), an entry whose
\* record differs from the derived fields only in the star or download count
\* sees no store call, is in neither createdPlugins nor updatedPlugins, and
\* its record keeps the stored counts.
C19_CountsDoNotTrigger ==
  \A j \in 1..N :
    (variant = VHead /\ OnlyCountsDiffer(j)) =>
      /\ Untouched(j)
      /\ webflowPlugin(j).id \in DOMAIN webflow
      /\ webflow[webflowPlugin(j).id] = webflowPlugin(j).fieldData
      /\ raised[j] \in {"", "enrichment"}

C19_Witness ==
  /\ RunCompleted
  /\ variant = VHead
  /\ \E j, k \in 1..N :
       /\ OnlyCountsDiffer(j)
       /\ Returned(j)
       /\ FailedEntriesFor(githubPlugins[j].name) = {}
       /\ Count(updatedPlugins, githubPlugins[k].name) = 1

----------------------------------------------------------------------------
\* The report lists under the interleavings of a batch

\* How often the name occurs in failedPlugins, whatever the reason.
FailedCount(name) ==
  BagCardinality([f \in FailedEntriesFor(name) |-> failedPlugins[f]])

ReportCount(name) ==
  Count(createdPlugins, name) + Count(updatedPlugins, name) + FailedCount(name)

\* The entries that processPlugin left as they are: a record, README
\* content, and no update due.
IsSkipped(j) == Returned(j) /\ ~NoContent(j) /\ Existing(j) # 0 /\ ~ShouldUpdate(j)

Skipped == {j \in 1..N : IsSkipped(j)}

\* C20: no append to the report lists is lost or duplicated: in every state a
\* manifest name occurs at most once in createdPlugins, updatedPlugins and
\* failedPlugins taken together, exactly once when its processPlugin has
\* returned and did not skip the entry, and after a completed run the three
\* lists together with the skipped entries count the manifest entries.
C20_ReportListsExact ==
  /\ \A j \in 1..N :
       IF pc[j] = "done"
         THEN ReportCount(githubPlugins[j].name) = (IF IsSkipped(j) THEN 0 ELSE 1)
         ELSE ReportCount(githubPlugins[j].name) <= 1
  /\ RunCompleted =>
       BagCardinality(createdPlugins) + BagCardinality(updatedPlugins)
         + BagCardinality(failedPlugins) + Cardinality(Skipped) = N

C20_Witness ==
  /\ RunCompleted
  /\ \E j, k \in 1..N :
       /\ j \in Skipped
       /\ Count(createdPlugins, githubPlugins[k].name) = 1
       /\ \E b \in 1..Len(batches) : {j, k} \subseteq batches[b]
  /\ BagCardinality(createdPlugins) + BagCardinality(failedPlugins) = 1

----------------------------------------------------------------------------
\* The summary comment of a pull request

\* The comments whose body is a report of generateReport.
SummaryComments == {k \in 1..Len(comments) : includes(comments[k], Heading)}

\* C21: a run triggered by a pull request that finds the summary comment of
\* an earlier run replaces it, so the pull request has at most one summary
\* comment whatever the number of runs, and a run that starts with a comment
\* on the pull request issues no createComment; a run with another trigger
\* issues no comment call.
C21_OneSummaryComment ==
  /\ Cardinality(SummaryComments) <= 1
  /\ Len(comments) > Count(commentCalls, "createComment") =>
       Count(commentCalls, "createComment") = 0
  /\ (RunCompleted /\ eventName # "pull_request") => commentCalls = EmptyBag

----------------------------------------------------------------------------
\* Termination

\* The steps of one run: everything but the workflow starting the script
\* again.
RunStep ==
  \/ ReadManifest
  \/ ListAlgolia
  \/ ListWebflow
  \/ StartBatch
  \/ BatchSettled
  \/ SleepDone
  \/ LoopExit
  \/ \E j \in 1..N :
       \/ EnrichSettle(j)
       \/ UpdateWebflowSettle(j)
       \/ UpdateAlgoliaSettle(j)
       \/ CreateWebflowSettle(j)
       \/ CreateAlgoliaSettle(j)
       \/ DeleteWebflowSettle(j)
       \/ DeleteAlgoliaSettle(j)
  \/ OrphanNext
  \/ OrphanWebflowSettle
  \/ OrphanAlgoliaSettle
  \/ GenerateReadme
  \/ Report
  \/ PostReport

\* Every external call settles and the event loop resumes what waits for it:
\* a step of the run that can be taken is eventually taken.
\* The runs checked for termination: the longest manifests in the version of
\* lines 1-307, one entry over an orphan, which a second run may follow, and
\* one entry over several orphans and a stale index item.
LiveInit ==
  \/ \E n \in {MaxEntries - 1, MaxEntries}, orphans \in BatchOrphanStores :
       Running([j \in 1..n |-> Entry(j, Url(j, j))],
               [j \in 1..n |-> IF j % BATCH_SIZE = 1 THEN WorldFull ELSE WorldEmpty],
               orphans, VHead, FALSE)
  \/ Scenario(TRUE, Cases1, {c \in Cases2 : c.kind = "absent"}, SingleOrphanStores)
  \/ InitStale

LiveSpec == LiveInit /\ [][Next]_vars /\ WF_vars(RunStep)

Ended == mainPc \in {"done", "fatal"}

\* C22: when every external call settles, with success or with an exception,
\* the run terminates: a batch being waited for settles, and from its start
\* the run reaches the end of the report or the exit of the catch block;
\* within a run the batch loop and the loop over the records only move
\* forward, and processPlugin is started at most once for an entry.
C22_RunTerminates ==
  /\ (mainPc = "start") ~> Ended
  /\ (mainPc = "await") ~> (mainPc \in {"sleep", "loop"})
  /\ [][run' = run => (i' >= i /\ cursor' >= cursor
                        /\ \A j \in 1..N : started'[j] >= started[j] /\ started'[j] <= 1)]_vars

C22_Witness ==
  /\ RunCompleted
  /\ Len(batches) = 3
  /\ cursor > Len(webflowPlugins)
  /\ deletedPlugins # EmptyBag
  /\ \E j \in 1..N : raised[j] # ""

----------------------------------------------------------------------------
\* One delete per record

\* The delete calls of one store issued for the listed record x (the content
\* delete goes by its id, the index delete by its slug).
DeletesOfRecord(x, store) ==
  Count(calls, Call("delete", store, webflowPlugins[x].fieldData.name))

\* The listed records whose index item has the slug of record x.
WithSlugOf(x) ==
  {y \in 1..Len(webflowPlugins) :
     webflowPlugins[y].fieldData.slug = webflowPlugins[x].fieldData.slug}

\* C23: in a run no listed record receives more than one delete call per
\* store and no name is twice in deletedPlugins: a record whose name the
\* manifest has is deleted by processPlugin only (entry without README
\* content), and never while the loop over the records runs; a record whose
\* name the manifest lacks is deleted by that loop only.
C23_DeletedOnce ==
  \A x \in 1..Len(webflowPlugins) :
    /\ DeletesOfRecord(x, "webflow") <= 1
    /\ DeletesOfRecord(x, "algolia") <= 1
    /\ Count(deletedPlugins, webflowPlugins[x].fieldData.name) <= 1
    /\ \A y \in WithSlugOf(x) \ {x} :
         DeletesOfRecord(x, "algolia") + DeletesOfRecord(y, "algolia") <= 1
    /\ (IsOrphan(webflowPlugins[x]) /\ DeletesOfRecord(x, "webflow") = 1) =>
         (cursor >= x /\ mainPc \notin {"loop", "await", "sleep"})
    /\ (~IsOrphan(webflowPlugins[x]) /\ DeletesOfRecord(x, "webflow") = 1) =>
         LET j == findPluginByName(githubPlugins, webflowPlugins[x].fieldData.name)
         IN /\ NoContent(j)
            /\ started[j] = 1
            /\ ~(cursor = x /\ mainPc \in {"orphanWebflow", "orphanAlgolia"})

C23_Witness ==
  /\ RunCompleted
  /\ \E x, y \in 1..Len(webflowPlugins) :
       /\ IsOrphan(webflowPlugins[x])
       /\ ~IsOrphan(webflowPlugins[y])
       /\ Count(deletedPlugins, webflowPlugins[x].fieldData.name) = 1
       /\ Count(deletedPlugins, webflowPlugins[y].fieldData.name) = 1
       /\ DeletesOfRecord(x, "algolia") = 1
       /\ DeletesOfRecord(y, "algolia") = 1

----------------------------------------------------------------------------
\* What the loop over the records decides from

\* The record of position j that the batches leave in the content store: the
\* listed one, unless processPlugin deletes it for want of README content,
\* or the one created in this run; 0 when there is none.
KeptRecord(j) ==
  IF Existing(j) # 0
    THEN IF NoContent(j) /\ DeletesOnNoContent(variant) THEN 0 ELSE webflowPlugin(j).id
    ELSE IF Count(calls, Call("create", "algolia", githubPlugins[j].name)) = 1
      THEN NewId(FieldData(githubPlugins[j], world[j]))
      ELSE 0

\* C24: the loop over the records deletes exactly the listed records whose
\* name the manifest lacks, whatever webflowPluginIds holds and whatever the
\* batches did: the record it is deleting is such a record, every such record
\* it has passed has had its delete issued, and the record of a manifest
\* entry -- created, updated, skipped or failed in the batches -- stays in the
\* content store and sees no delete call.
C24_OrphansFromListing ==
  /\ mainPc \in {"orphanWebflow", "orphanAlgolia"} => cursor \in ListedOrphans
  /\ \A x \in ListedOrphans : cursor > x => DeletesOfRecord(x, "webflow") = 1
  /\ \A j \in 1..N :
       KeptRecord(j) # 0 =>
         /\ KeptRecord(j) \in DOMAIN webflow
         /\ DeletesFor(githubPlugins[j].name) = 0

C24_Witness ==
  /\ RunCompleted
  /\ ListedOrphans # {}
  /\ \A x \in ListedOrphans : Count(deletedPlugins, webflowPlugins[x].fieldData.name) = 1
  /\ \E j, k \in 1..N :
       /\ Count(createdPlugins, githubPlugins[j].name) = 1
       /\ KeptRecord(j) \in DOMAIN webflow
       /\ raised[k] = "updateAlgoliaItem"
       /\ KeptRecord(k) \in DOMAIN webflow

====
